---- MODULE Spec2Model ----
(***************************************************************************)
(* Quorum-store batch requester (consensus/src/quorum_store):              *)
(*   - BatchRequesterState : per-digest signer rotation and retry budget   *)
(*   - DigestTimeouts      : FIFO queue of (expiry, digest)                *)
(*   - RoundExpirations    : min-round priority queue of (round, item)     *)
(*   - BatchRequester      : digest -> state map driven by add_request,    *)
(*                           handle_timeouts and serve_request             *)
(* Several specifications share one set of variables; each one exercises   *)
(* one component and leaves the variables of the others at their initial   *)
(* value.                                                                  *)
(***************************************************************************)
EXTENDS Bags, FiniteSets, Integers, Sequences, TLC

VARIABLES
    \* ---- BatchRequester (batch_requester.rs:70-78) ----
    request_num_peers,  \* config: peers contacted per send
    digest_to_state,    \* HashMap<HashValue, BatchRequesterState>
    timeouts,           \* DigestTimeouts.timeouts : VecDeque<(i64, HashValue)>
    now,                \* the wall clock read by Utc::now()
    pc,                 \* "idle", or "handling" inside the loop of handle_timeouts
    expired,            \* digests returned by timeouts.expire(), not yet visited
    \* ---- environment of the BatchRequester ----
    next_ret_tx,        \* id of the next oneshot channel a caller will create
    delivered,          \* per oneshot channel: the values its receiver got
    dropped,            \* oneshot senders destroyed without a send
    rx_dropped,         \* oneshot channels whose receiver the caller has dropped
    panicked,           \* an expect() of BatchRequesterState::serve_request failed
    num_sends,          \* per digest: network_sender.send calls issued
    last_msg,           \* Option<(digest, request_peers)> of the last send
    \* ---- history of the BatchRequester run ----
    owner,              \* per oneshot channel: the digest it was handed in for
    served,             \* per channel resolved by a response: how the response found it
    ignored,            \* Option<(digest, status)> of the response dropped by the last operation
    expiries_seen,      \* per channel pending or failed: timeouts consumed by its state
    sched,              \* per entry of timeouts: the channel of the state it was scheduled for
    expired_for,        \* the same for the entries of expired
    \* ---- BatchRequesterState exercised alone ----
    rs,                 \* the state under test
    rs_ret,             \* Option<Vec<PeerId>> of the last next_request_peers
    rs_calls,           \* number of next_request_peers calls made
    rs_union,           \* set of peers returned so far
    \* ---- DigestTimeouts exercised alone uses timeouts, now and ----
    dt_ret,             \* Vec<HashValue> returned by expire(), when it ran last
    dt_before,          \* the queue before that expire(), when it ran last
    \* ---- RoundExpirations ----
    expiries,           \* BinaryHeap<(Reverse<Round>, I)> as a bag of <<round, item>>
    re_ret,             \* HashSet<I> returned by expire(round), when it ran last
    re_round,           \* the argument of the last expire(round), -1 before any
    \* ---- BatchBuilder (utils.rs:21-27) ----
    builder,            \* [id, summaries, data, num_bytes, max_bytes]
    bb_ret,             \* [op, arg, val]: the last call, its argument and its result
    bb_taken,           \* serialized txns removed by take_serialized_txns since the
                        \* last take_summaries
    bb_aborted          \* the assert! of take_summaries failed

vars == << request_num_peers, digest_to_state, timeouts, now, pc, expired,
           next_ret_tx, delivered, dropped, rx_dropped, panicked,
           num_sends, last_msg,
           owner, served, ignored, expiries_seen, sched, expired_for,
           rs, rs_ret, rs_calls, rs_union,
           dt_ret, dt_before,
           expiries, re_ret, re_round,
           builder, bb_ret, bb_taken, bb_aborted >>

coordVars == << request_num_peers, digest_to_state, timeouts, now, pc, expired,
                next_ret_tx, delivered, dropped, rx_dropped, panicked,
                num_sends, last_msg,
                owner, served, ignored, expiries_seen, sched, expired_for >>
peersVars == << rs, rs_ret, rs_calls, rs_union >>
dtVars    == << dt_ret, dt_before >>
reVars    == << expiries, re_ret, re_round >>
bbVars    == << builder, bb_ret, bb_taken, bb_aborted >>

(***************************************************************************)
(* Bounds                                                                  *)
(***************************************************************************)
NumPeerIds    == 3   \* peer ids are 1..NumPeerIds
MaxSignersLen == 6   \* longest signer list handed to BatchRequesterState::new
MaxNumPeers   == 3   \* largest num_peers argument
MaxCalls      == 7   \* next_request_peers calls made on the state under test
NumDigests    == 3   \* digests are 1..NumDigests
MaxQueue      == 3   \* entries held by a DigestTimeouts exercised alone
MaxTimeout    == 2   \* largest timeout handed to add_digest
MaxTime       == 4   \* last clock value of a DigestTimeouts exercised alone
NumItems      == 3   \* items of a RoundExpirations are 1..NumItems
MaxRound      == 8   \* largest expiry round
MaxHeap       == 3   \* entries held by a RoundExpirations
NumCoordDigests  == 2   \* digests requested from the BatchRequester
MaxRequests      == 2   \* add_request calls, one oneshot channel each
MaxCoordSigners  == 2   \* longest signer list handed to add_request
MaxReqNumPeers   == 2   \* largest request_num_peers configured
request_timeout_ms == 2 \* the configured request timeout
NumSenders    == 2   \* transaction senders are 1..NumSenders
MaxSeqNum     == 1   \* largest sequence number of a transaction
SmallLen      == 3   \* serialized length of a small transaction
MidLen        == 40  \* serialized length of a medium transaction
BigLen        == 60  \* serialized length of a large transaction
MaxBytes      == 100 \* largest max_bytes a BatchBuilder is created with
MaxTxns       == 3   \* append_transaction calls accepted per batch
MaxBatchId    == 2   \* last batch id reached

PeerIds == 1..NumPeerIds
Digests == 1..NumDigests
Items   == 1..NumItems
Rounds  == 0..MaxRound
CoordDigests == 1..NumCoordDigests
CoordSigners == { [ i \in 1..n |-> i ] : n \in 1..MaxCoordSigners }
Payloads     == { "p1", "p2" }

\* Option<T>: None is the empty tuple, Some(x) the one-element tuple
None    == << >>
Some(x) == << x >>

Range(s) == { s[i] : i \in 1..Len(s) }

SeqsUpTo(S, n) == UNION { [1..m -> S] : m \in 1..n }

(***************************************************************************)
(* BatchRequesterState                                                     *)
(***************************************************************************)
max_num_retry == 5

\* BatchRequesterState::new
BatchRequesterState_new(signers, ret_tx) ==
    [ signers       |-> signers,
      next_index    |-> 0,
      ret_tx        |-> ret_tx,
      num_retries   |-> 0,
      max_num_retry |-> max_num_retry ]

\* signers.iter().cycle(): the position after pos (0-based), restarting at
\* the front when the underlying iterator is finished
cycle_next(signers, pos) ==
    IF pos + 1 = Len(signers) THEN 0 ELSE pos + 1

\* .skip(n) on the cycling iterator started at position pos
RECURSIVE cycle_skip(_, _, _)
cycle_skip(signers, pos, n) ==
    IF n = 0 THEN pos
    ELSE cycle_skip(signers, cycle_next(signers, pos), n - 1)

\* a take over the plain iterator: it ends at the end of the list
RECURSIVE cycle_take_nocycle(_, _, _)
cycle_take_nocycle(signers, pos, n) ==
    IF n = 0 \/ pos >= Len(signers) THEN << >>
    ELSE << signers[pos + 1] >> \o cycle_take_nocycle(signers, pos + 1, n - 1)

\* .take(n).cloned().collect() on the cycling iterator at position pos
RECURSIVE cycle_take(_, _, _)
cycle_take(signers, pos, n) ==
    IF n = 0 THEN << >>
    ELSE << signers[pos + 1] >> \o cycle_take(signers, cycle_next(signers, pos), n - 1)

\* the budget test written with <= : one retry too many
next_request_peers_le(st, num_peers) ==
    IF st.num_retries <= st.max_num_retry
    THEN [ st  |-> [ st EXCEPT
                       !.num_retries = st.num_retries + 1,
                       !.next_index  = (st.next_index + num_peers) % Len(st.signers) ],
           ret |-> Some(cycle_take(st.signers,
                                   cycle_skip(st.signers, 0, st.next_index),
                                   num_peers)) ]
    ELSE [ st |-> st, ret |-> None ]

\* the cursor is never advanced: every retry asks the same peers
next_request_peers_stuck(st, num_peers) ==
    IF st.num_retries < st.max_num_retry
    THEN [ st  |-> [ st EXCEPT !.num_retries = st.num_retries + 1 ],
           ret |-> Some(cycle_take(st.signers,
                                   cycle_skip(st.signers, 0, st.next_index),
                                   num_peers)) ]
    ELSE [ st |-> st, ret |-> None ]

\* BatchRequesterState::next_request_peers: the state after the call and
\* the returned Option<Vec<PeerId>>
next_request_peers(st, num_peers) ==
    IF st.num_retries < st.max_num_retry
    THEN [ st  |-> [ st EXCEPT
                       !.num_retries = st.num_retries + 1,
                       !.next_index  = (st.next_index + num_peers) % Len(st.signers) ],
           ret |-> Some(cycle_take(st.signers,
                                   cycle_skip(st.signers, 0, st.next_index),
                                   num_peers)) ]
    ELSE [ st |-> st, ret |-> None ]

(***************************************************************************)
(* DigestTimeouts: entries are <<expiry, digest>>                          *)
(***************************************************************************)
\* the entry is pushed at the front of the queue
add_digest_front(q, digest, timeout, clock) ==
    << << clock + timeout, digest >> >> \o q

\* DigestTimeouts::add_digest, clock being the value of Utc::now()
add_digest(q, digest, timeout, clock) ==
    Append(q, << clock + timeout, digest >>)

\* .iter().filter(..).count(): every expired entry, wherever it is
RECURSIVE num_expired_filter(_, _)
num_expired_filter(q, cur_time) ==
    IF q = << >> THEN 0
    ELSE (IF cur_time >= Head(q)[1] THEN 1 ELSE 0)
         + num_expired_filter(Tail(q), cur_time)

\* .iter().take_while(|(expiration_time, _)| cur_time >= *expiration_time).count()
RECURSIVE num_expired(_, _)
num_expired(q, cur_time) ==
    IF q = << >> THEN 0
    ELSE IF cur_time >= Head(q)[1]
         THEN 1 + num_expired(Tail(q), cur_time)
         ELSE 0

\* DigestTimeouts::expire: the queue after drain(0..num_expired) and the
\* digests of the drained entries
DigestTimeouts_expire(q, cur_time) ==
    LET n == num_expired(q, cur_time) IN
    [ timeouts |-> SubSeq(q, n + 1, Len(q)),
      ret      |-> [ i \in 1..n |-> q[i][2] ] ]

(***************************************************************************)
(* RoundExpirations: the heap is a bag of <<round, item>>                  *)
(***************************************************************************)
\* RoundExpirations::add_item
add_item(h, item, expiry_round) ==
    h (+) SetToBag({ << expiry_round, item >> })

\* BinaryHeap::peek on (Reverse<Round>, I): the greatest element, that is
\* the least round and, among equal rounds, the greatest item
heap_peek(h) ==
    CHOOSE e \in BagToSet(h) :
        \A f \in BagToSet(h) :
            e[1] < f[1] \/ (e[1] = f[1] /\ e[2] >= f[2])

\* BinaryHeap::pop
heap_pop(h) == h (-) SetToBag({ heap_peek(h) })

\* the loop test written as in the doc comment: round <= given round
RECURSIVE expire_loop_le(_, _, _)
expire_loop_le(h, round, ret) ==
    IF BagToSet(h) = {} THEN [ expiries |-> h, ret |-> ret ]
    ELSE IF heap_peek(h)[1] <= round
         THEN expire_loop_le(heap_pop(h), round, ret \cup { heap_peek(h)[2] })
         ELSE [ expiries |-> h, ret |-> ret ]

\* the while-let loop of RoundExpirations::expire
RECURSIVE expire_loop(_, _, _)
expire_loop(h, round, ret) ==
    IF BagToSet(h) = {} THEN [ expiries |-> h, ret |-> ret ]
    ELSE IF heap_peek(h)[1] < round
         THEN expire_loop(heap_pop(h), round, ret \cup { heap_peek(h)[2] })
         ELSE [ expiries |-> h, ret |-> ret ]

\* RoundExpirations::expire: the heap after the call and the returned set
RoundExpirations_expire(h, round) == expire_loop(h, round, {})

(***************************************************************************)
(* Specification SpecPeers: one BatchRequesterState, created by new() and  *)
(* asked for peers again and again with the same num_peers.                *)
(***************************************************************************)
IdlePeers ==
    /\ rs = BatchRequesterState_new(<< 1 >>, 0)
    /\ rs_ret = None
    /\ rs_calls = 0
    /\ rs_union = {}

IdleCoordState ==
    /\ digest_to_state = << >>
    /\ timeouts = << >>
    /\ now = 0
    /\ pc = "idle"
    /\ expired = << >>
    /\ next_ret_tx = 1
    /\ delivered = << >>
    /\ dropped = {}
    /\ rx_dropped = {}
    /\ panicked = FALSE
    /\ num_sends = [ d \in CoordDigests |-> 0 ]
    /\ last_msg = None
    /\ owner = << >>
    /\ served = << >>
    /\ ignored = None
    /\ expiries_seen = << >>
    /\ sched = << >>
    /\ expired_for = << >>

IdleCoord ==
    /\ request_num_peers = 1
    /\ IdleCoordState

IdleDT ==
    /\ dt_ret = << >>
    /\ dt_before = << >>

IdleRE ==
    /\ expiries = EmptyBag
    /\ re_ret = {}
    /\ re_round = -1

(***************************************************************************)
(* BatchBuilder (utils.rs:21-81).  A signed transaction is its sender, its *)
(* sequence number and the length of its serialized form; the serialized   *)
(* transaction is a sequence of bytes.                                     *)
(***************************************************************************)
TxnLens == { SmallLen, MidLen, BigLen, MaxBytes + 1 }

MaxBytesChoices == { 2 * MidLen, MaxBytes }

SignedTransactions ==
    [ sender : 1..NumSenders, sequence_number : 0..MaxSeqNum, size : TxnLens ]

\* SerializedTransaction::from_signed_txn: the bytes of the transaction
from_signed_txn(txn) ==
    [ i \in 1..txn.size |->
        IF i = 1 THEN txn.sender
        ELSE IF i = 2 THEN txn.sequence_number
        ELSE 0 ]

TransactionSummary(txn) ==
    [ sender |-> txn.sender, sequence_number |-> txn.sequence_number ]

BatchBuilder_new(batch_id, max_bytes) ==
    [ id |-> batch_id, summaries |-> << >>, data |-> << >>,
      num_bytes |-> 0, max_bytes |-> max_bytes ]

\* append_transaction with < for <= in the admission test
append_transaction_lt(b, txn) ==
    LET serialized_txn == from_signed_txn(txn) IN
    IF b.num_bytes + Len(serialized_txn) < b.max_bytes
    THEN [ b   |-> [ b EXCEPT !.summaries = Append(@, TransactionSummary(txn)),
                              !.num_bytes = @ + Len(serialized_txn),
                              !.data = Append(@, serialized_txn) ],
           ret |-> TRUE ]
    ELSE [ b |-> b, ret |-> FALSE ]

append_transaction(b, txn) ==
    LET serialized_txn == from_signed_txn(txn) IN
    IF b.num_bytes + Len(serialized_txn) <= b.max_bytes
    THEN [ b   |-> [ b EXCEPT !.summaries = Append(@, TransactionSummary(txn)),
                              !.num_bytes = @ + Len(serialized_txn),
                              !.data = Append(@, serialized_txn) ],
           ret |-> TRUE ]
    ELSE [ b |-> b, ret |-> FALSE ]

is_empty(b) == b.summaries = << >>

batch_id(b) == b.id

\* take_serialized_txns that also clears the byte total
take_serialized_txns_reset(b) ==
    [ b |-> [ b EXCEPT !.data = << >>, !.num_bytes = 0 ], ret |-> b.data ]

take_serialized_txns(b) ==
    [ b |-> [ b EXCEPT !.data = << >> ], ret |-> b.data ]

\* take_summaries that keeps the byte total
take_summaries_keep(b) ==
    IF b.data # << >>
    THEN [ b |-> b, ret |-> None, failed |-> TRUE ]
    ELSE [ b      |-> [ b EXCEPT !.id = @ + 1, !.summaries = << >> ],
           ret    |-> Some(b.summaries),
           failed |-> FALSE ]

\* take_summaries without its assert!
take_summaries_noassert(b) ==
    [ b      |-> [ b EXCEPT !.id = @ + 1, !.num_bytes = 0, !.summaries = << >> ],
      ret    |-> Some(b.summaries),
      failed |-> FALSE ]

take_summaries(b) ==
    IF b.data # << >>
    THEN [ b |-> b, ret |-> None, failed |-> TRUE ]
    ELSE [ b      |-> [ b EXCEPT !.id = @ + 1, !.num_bytes = 0,
                                 !.summaries = << >> ],
           ret    |-> Some(b.summaries),
           failed |-> FALSE ]

summaries(b) == b.summaries

IdleBB ==
    /\ builder = BatchBuilder_new(0, MaxBytes)
    /\ bb_ret = None
    /\ bb_taken = << >>
    /\ bb_aborted = FALSE

InitPeers ==
    /\ request_num_peers \in 0..MaxNumPeers
    /\ \E signers \in SeqsUpTo(PeerIds, MaxSignersLen) :
           rs = BatchRequesterState_new(signers, 0)
    /\ rs_ret = None
    /\ rs_calls = 0
    /\ rs_union = {}
    /\ IdleCoordState
    /\ IdleDT /\ IdleRE /\ IdleBB

CallNextRequestPeers ==
    /\ rs_calls < MaxCalls
    /\ LET r == next_request_peers(rs, request_num_peers) IN
         /\ rs' = r.st
         /\ rs_ret' = r.ret
         /\ rs_union' = IF r.ret = None THEN rs_union
                        ELSE rs_union \cup Range(r.ret[1])
    /\ rs_calls' = rs_calls + 1
    /\ UNCHANGED << coordVars, dtVars, reVars, bbVars >>

NextPeers == CallNextRequestPeers

SpecPeers == InitPeers /\ [][NextPeers]_vars

Min(a, b) == IF a <= b THEN a ELSE b

\* C6: on a fresh state the first max_num_retry calls of next_request_peers
\* return a peer list and every later call returns nothing; a call made
\* after exhaustion changes neither num_retries, next_index nor signers,
\* so num_retries never exceeds max_num_retry.
C6_RetryBudget ==
    /\ [](/\ rs.num_retries <= rs.max_num_retry
          /\ rs.num_retries = Min(rs_calls, max_num_retry)
          /\ rs_calls >= 1 => ((rs_ret # None) <=> (rs_calls <= max_num_retry)))
    /\ [][ (rs_calls' # rs_calls /\ rs_calls >= max_num_retry)
            => (rs' = rs /\ rs_ret' = None) ]_vars

\* a call was made after the budget was spent
C6_Witness ==
    rs_calls = max_num_retry + 2 /\ rs_ret = None /\ rs.num_retries = max_num_retry

\* C7: a successful next_request_peers(k) on a list of length L with cursor
\* c returns exactly k ids, the i-th being signers[(c + i) mod L], and sets
\* next_index to (c + k) mod L; 0 <= next_index < L in every state.
C7_CycleAndTake ==
    /\ [](0 <= rs.next_index /\ rs.next_index < Len(rs.signers))
    /\ [][ (rs_calls' # rs_calls /\ rs_ret' # None) =>
            LET L == Len(rs.signers)
                c == rs.next_index
                k == request_num_peers
            IN /\ Len(rs_ret'[1]) = k
               /\ \A i \in 0..(k - 1) :
                      rs_ret'[1][i + 1] = rs.signers[((c + i) % L) + 1]
               /\ rs'.next_index = (c + k) % L
               /\ rs'.signers = rs.signers ]_vars

\* a call from a non-zero cursor whose result wrapped around the list
C7_Witness ==
    /\ rs_ret # None
    /\ Len(rs.signers) = 2
    /\ request_num_peers = 3
    /\ rs.signers[1] # rs.signers[2]
    /\ rs_calls = 2
    /\ rs_ret[1] = << rs.signers[2], rs.signers[1], rs.signers[2] >>
    /\ rs.next_index = 0

\* C8 as stated: once the budget is spent, every signer of the list was
\* returned by some call, whatever L and k >= 1 are.
C8_CoverageAsStated ==
    (request_num_peers >= 1 /\ rs.num_retries = rs.max_num_retry)
        => Range(rs.signers) \subseteq rs_union

\* C8 amended: once the budget is spent, the peers returned are exactly
\* those at the first min(L, max_num_retry * k) positions of the list, so
\* every signer was tried when L <= max_num_retry * k.
C8_Coverage ==
    (request_num_peers >= 1 /\ rs.num_retries = rs.max_num_retry) =>
        LET L == Len(rs.signers)
            k == request_num_peers
        IN /\ rs_union = { rs.signers[i] : i \in 1..Min(L, max_num_retry * k) }
           /\ L <= max_num_retry * k => Range(rs.signers) \subseteq rs_union

\* the budget is spent on a list longer than one call's worth of peers,
\* all of whose distinct signers were tried
C8_Witness ==
    /\ rs.num_retries = rs.max_num_retry
    /\ request_num_peers = 1
    /\ Len(rs.signers) = 5
    /\ Cardinality(Range(rs.signers)) = NumPeerIds
    /\ rs_union = Range(rs.signers)

(***************************************************************************)
(* BatchRequester                                                          *)
(***************************************************************************)
\* HashMap::insert, HashMap::remove and HashMap::contains_key
map_insert(m, k, v) == [ x \in DOMAIN m \cup { k } |-> IF x = k THEN v ELSE m[x] ]
map_remove(m, k)    == [ x \in DOMAIN m \ { k } |-> m[x] ]
contains_key(m, k)  == k \in DOMAIN m

\* Result<Vec<SignedTransaction>, executor_types::Error>
Ok(payload)     == << "Ok", payload >>
CouldNotGetData == << "Err", "CouldNotGetData" >>

\* ret_tx.send(value) whose Err is dropped instead of handed to expect()
send_expect_ignore(ret_tx, value) ==
    IF ret_tx \in rx_dropped
    THEN UNCHANGED << delivered, panicked >>
    ELSE /\ delivered' = [ delivered EXCEPT ![ret_tx] = Append(@, value) ]
         /\ UNCHANGED panicked

\* ret_tx.send(value).expect("Receiver of requested batch not available"):
\* oneshot::Sender::send returns Err when the receiver is gone
send_expect(ret_tx, value) ==
    IF ret_tx \in rx_dropped
    THEN /\ panicked' = TRUE
         /\ UNCHANGED delivered
    ELSE /\ delivered' = [ delivered EXCEPT ![ret_tx] = Append(@, value) ]
         /\ UNCHANGED panicked

\* BatchRequesterState::serve_request
state_serve_request(st, digest, maybe_payload) ==
    IF maybe_payload # None
    THEN send_expect(st.ret_tx, Ok(maybe_payload[1]))
    ELSE send_expect(st.ret_tx, CouldNotGetData)

\* BatchRequester::send_requests: one network_sender.send(msg, request_peers).
\* my_peer_id is no member of PeerIds, so the debug_assert holds.
send_requests(digest, request_peers) ==
    /\ num_sends' = [ num_sends EXCEPT ![digest] = @ + 1 ]
    /\ last_msg' = Some(<< digest, request_peers >>)

\* how a response finds its digest
ArrivalStatus(digest) ==
    IF contains_key(digest_to_state, digest)
    THEN IF digest_to_state[digest].num_retries < digest_to_state[digest].max_num_retry
         THEN "budget_left"
         ELSE "budget_spent"
    ELSE IF \E t \in DOMAIN owner : owner[t] = digest
         THEN "resolved"
         ELSE "never_added"

\* BatchRequester::add_request; the caller hands in the sender of a fresh
\* oneshot channel
AddRequest(digest, signers) ==
    /\ ~panicked
    /\ pc = "idle"
    /\ next_ret_tx <= MaxRequests
    /\ LET ret_tx == next_ret_tx
           r      == next_request_peers(BatchRequesterState_new(signers, ret_tx),
                                        request_num_peers)
       IN /\ r.ret # None
          /\ digest_to_state' = map_insert(digest_to_state, digest, r.st)
          /\ dropped' = IF contains_key(digest_to_state, digest)
                        THEN dropped \cup { digest_to_state[digest].ret_tx }
                        ELSE dropped
          /\ send_requests(digest, r.ret[1])
          /\ timeouts' = add_digest(timeouts, digest, request_timeout_ms, now)
          /\ sched' = Append(sched, ret_tx)
          /\ delivered' = map_insert(delivered, ret_tx, << >>)
          /\ owner' = map_insert(owner, ret_tx, digest)
          /\ expiries_seen' =
                 map_insert(IF contains_key(digest_to_state, digest)
                            THEN map_remove(expiries_seen, digest_to_state[digest].ret_tx)
                            ELSE expiries_seen,
                            ret_tx, 0)
    /\ next_ret_tx' = next_ret_tx + 1
    /\ ignored' = None
    /\ UNCHANGED << request_num_peers, now, pc, expired, served, expired_for,
                    rx_dropped, panicked, peersVars, dtVars, reVars, bbVars >>

\* BatchRequester::handle_timeouts up to the loop: timeouts.expire()
HandleTimeoutsBegin ==
    /\ ~panicked
    /\ pc = "idle"
    /\ LET r == DigestTimeouts_expire(timeouts, now) IN
         /\ timeouts' = r.timeouts
         /\ expired' = r.ret
         /\ expired_for' = SubSeq(sched, 1, Len(r.ret))
         /\ sched' = SubSeq(sched, Len(r.ret) + 1, Len(sched))
         /\ pc' = IF r.ret = << >> THEN "idle" ELSE "handling"
         /\ ignored' = IF r.ret = << >> THEN ignored ELSE None
    /\ UNCHANGED << request_num_peers, digest_to_state, now, next_ret_tx,
                    delivered, dropped, num_sends, last_msg, owner, served,
                    expiries_seen, rx_dropped, panicked,
                    peersVars, dtVars, reVars, bbVars >>

\* the loop body without timeouts.add_digest after a resend
HandleTimeoutsStep_noresched ==
    /\ ~panicked
    /\ pc = "handling"
    /\ LET digest == Head(expired) IN
         IF contains_key(digest_to_state, digest)
         THEN LET state == digest_to_state[digest]
                  r     == next_request_peers(state, request_num_peers)
              IN /\ expiries_seen' = [ expiries_seen EXCEPT ![state.ret_tx] = @ + 1 ]
                 /\ IF r.ret # None
                    THEN /\ digest_to_state' = [ digest_to_state EXCEPT ![digest] = r.st ]
                         /\ send_requests(digest, r.ret[1])
                         /\ UNCHANGED << delivered, panicked, timeouts, sched >>
                    ELSE /\ digest_to_state' = map_remove(digest_to_state, digest)
                         /\ state_serve_request(state, digest, None)
                         /\ UNCHANGED << num_sends, last_msg, timeouts, sched >>
         ELSE UNCHANGED << digest_to_state, delivered, panicked, num_sends,
                           last_msg, timeouts, sched, expiries_seen >>
    /\ expired' = Tail(expired)
    /\ expired_for' = Tail(expired_for)
    /\ pc' = IF Tail(expired) = << >> THEN "idle" ELSE "handling"
    /\ UNCHANGED << request_num_peers, now, next_ret_tx, dropped, owner, served,
                    ignored, rx_dropped, peersVars, dtVars, reVars, bbVars >>

\* one iteration of the loop of BatchRequester::handle_timeouts
HandleTimeoutsStep ==
    /\ ~panicked
    /\ pc = "handling"
    /\ LET digest == Head(expired) IN
         IF contains_key(digest_to_state, digest)
         THEN LET state == digest_to_state[digest]
                  r     == next_request_peers(state, request_num_peers)
              IN /\ expiries_seen' = [ expiries_seen EXCEPT ![state.ret_tx] = @ + 1 ]
                 /\ IF r.ret # None
                    THEN /\ digest_to_state' = [ digest_to_state EXCEPT ![digest] = r.st ]
                         /\ send_requests(digest, r.ret[1])
                         /\ timeouts' = add_digest(timeouts, digest,
                                                   request_timeout_ms, now)
                         /\ sched' = Append(sched, state.ret_tx)
                         /\ UNCHANGED << delivered, panicked >>
                    ELSE /\ digest_to_state' = map_remove(digest_to_state, digest)
                         /\ state_serve_request(state, digest, None)
                         /\ UNCHANGED << num_sends, last_msg, timeouts, sched >>
         ELSE UNCHANGED << digest_to_state, delivered, panicked, num_sends,
                           last_msg, timeouts, sched, expiries_seen >>
    /\ expired' = Tail(expired)
    /\ expired_for' = Tail(expired_for)
    /\ pc' = IF Tail(expired) = << >> THEN "idle" ELSE "handling"
    /\ UNCHANGED << request_num_peers, now, next_ret_tx, dropped, owner, served,
                    ignored, rx_dropped, peersVars, dtVars, reVars, bbVars >>

\* serve_request reading the state with get() and leaving it in the map
ServeRequest_keep(digest, payload) ==
    /\ ~panicked
    /\ pc = "idle"
    /\ IF contains_key(digest_to_state, digest)
       THEN LET state == digest_to_state[digest] IN
            /\ state_serve_request(state, digest, Some(payload))
            /\ served' = map_insert(served, state.ret_tx, ArrivalStatus(digest))
            /\ ignored' = None
            /\ UNCHANGED << digest_to_state, expiries_seen >>
       ELSE /\ ignored' = Some(<< digest, ArrivalStatus(digest) >>)
            /\ UNCHANGED << digest_to_state, delivered, panicked, served,
                            expiries_seen >>
    /\ UNCHANGED << request_num_peers, timeouts, now, pc, expired, next_ret_tx,
                    dropped, num_sends, last_msg, owner, rx_dropped,
                    sched, expired_for, peersVars, dtVars, reVars, bbVars >>

\* the queue entries, each with its sched tag, that are not for digest
purged(digest) ==
    SelectSeq([ i \in 1..Len(timeouts) |-> << timeouts[i], sched[i] >> ],
              LAMBDA z : z[1][2] # digest)

\* serve_request that also drops the queued timeouts of the digest
ServeRequest_purge(digest, payload) ==
    /\ ~panicked
    /\ pc = "idle"
    /\ timeouts' = [ i \in 1..Len(purged(digest)) |-> purged(digest)[i][1] ]
    /\ sched' = [ i \in 1..Len(purged(digest)) |-> purged(digest)[i][2] ]
    /\ IF contains_key(digest_to_state, digest)
       THEN LET state == digest_to_state[digest] IN
            /\ digest_to_state' = map_remove(digest_to_state, digest)
            /\ state_serve_request(state, digest, Some(payload))
            /\ served' = map_insert(served, state.ret_tx, ArrivalStatus(digest))
            /\ expiries_seen' = map_remove(expiries_seen, state.ret_tx)
            /\ ignored' = None
       ELSE /\ ignored' = Some(<< digest, ArrivalStatus(digest) >>)
            /\ UNCHANGED << digest_to_state, delivered, panicked, served,
                            expiries_seen >>
    /\ UNCHANGED << request_num_peers, now, pc, expired, next_ret_tx,
                    dropped, num_sends, last_msg, owner, rx_dropped,
                    expired_for, peersVars, dtVars, reVars, bbVars >>

\* BatchRequester::serve_request
ServeRequest(digest, payload) ==
    /\ ~panicked
    /\ pc = "idle"
    /\ IF contains_key(digest_to_state, digest)
       THEN LET state == digest_to_state[digest] IN
            /\ digest_to_state' = map_remove(digest_to_state, digest)
            /\ state_serve_request(state, digest, Some(payload))
            /\ served' = map_insert(served, state.ret_tx, ArrivalStatus(digest))
            /\ expiries_seen' = map_remove(expiries_seen, state.ret_tx)
            /\ ignored' = None
       ELSE /\ ignored' = Some(<< digest, ArrivalStatus(digest) >>)
            /\ UNCHANGED << digest_to_state, delivered, panicked, served,
                            expiries_seen >>
    /\ UNCHANGED << request_num_peers, timeouts, now, pc, expired, next_ret_tx,
                    dropped, num_sends, last_msg, owner, rx_dropped,
                    sched, expired_for, peersVars, dtVars, reVars, bbVars >>

\* the wall clock advances; it is followed while a scheduled timeout is
\* still in the future (later readings would compare the same way)
Tick ==
    /\ ~panicked
    /\ \E i \in 1..Len(timeouts) : timeouts[i][1] > now
    /\ now' = now + 1
    /\ UNCHANGED << request_num_peers, digest_to_state, timeouts, pc, expired,
                    next_ret_tx, delivered, dropped, rx_dropped, panicked,
                    num_sends, last_msg,
                    owner, served, ignored, expiries_seen, sched, expired_for,
                    peersVars, dtVars, reVars, bbVars >>

(***************************************************************************)
(* Specification Spec: the BatchRequester, BatchRequester::new followed by *)
(* any sequence of add_request, handle_timeouts and serve_request.         *)
(***************************************************************************)
Init ==
    /\ request_num_peers \in 1..MaxReqNumPeers
    /\ IdleCoordState
    /\ IdlePeers /\ IdleDT /\ IdleRE /\ IdleBB

Next ==
    \/ \E digest \in CoordDigests, signers \in CoordSigners :
           AddRequest(digest, signers)
    \/ HandleTimeoutsBegin
    \/ HandleTimeoutsStep
    \/ \E digest \in CoordDigests, payload \in Payloads :
           ServeRequest(digest, payload)
    \/ Tick

Spec == Init /\ [][Next]_vars

\* the caller drops the receiving end of a oneshot channel that has got no
\* value yet
DropReceiver(ret_tx) ==
    /\ ~panicked
    /\ ret_tx \in DOMAIN owner
    /\ ret_tx \notin rx_dropped
    /\ delivered[ret_tx] = << >>
    /\ rx_dropped' = rx_dropped \cup { ret_tx }
    /\ UNCHANGED << request_num_peers, digest_to_state, timeouts, now, pc, expired,
                    next_ret_tx, delivered, dropped, panicked, num_sends, last_msg,
                    owner, served, ignored, expiries_seen, sched, expired_for,
                    peersVars, dtVars, reVars, bbVars >>

NextDrop ==
    \/ \E digest \in CoordDigests, signers \in CoordSigners :
           AddRequest(digest, signers)
    \/ HandleTimeoutsBegin
    \/ HandleTimeoutsStep
    \/ \E digest \in CoordDigests, payload \in Payloads :
           ServeRequest(digest, payload)
    \/ Tick
    \/ \E ret_tx \in 1..MaxRequests : DropReceiver(ret_tx)

\* Specification SpecDrop: the BatchRequester with callers that may drop
\* their receiver before the request is resolved
SpecDrop == Init /\ [][NextDrop]_vars

\* timer ticks keep occurring and the clock keeps advancing
SpecLive ==
    /\ Spec
    /\ WF_vars(Tick)
    /\ WF_vars(HandleTimeoutsBegin)
    /\ WF_vars(HandleTimeoutsStep)

\* the oneshot channels handed in for digest so far
ChannelsOf(digest) == { t \in DOMAIN owner : owner[t] = digest }
AddedOnce(digest)  == Cardinality(ChannelsOf(digest)) = 1
ChannelOf(digest)  == CHOOSE t \in ChannelsOf(digest) : TRUE

\* the sender of channel t is still held by a state of the pending map
Held(t) == \E d \in DOMAIN digest_to_state : digest_to_state[d].ret_tx = t

\* C1 as stated: for a digest added once the sink gets exactly one value,
\* and it is Ok(payload) if and only if a response arrived while
\* num_retries was still below max_num_retry; otherwise CouldNotGetData.
C1_AsStated ==
    \A d \in CoordDigests :
        AddedOnce(d) =>
            LET t == ChannelOf(d) IN
            /\ Len(delivered[t]) <= 1
            /\ contains_key(digest_to_state, d) <=> delivered[t] = << >>
            /\ delivered[t] # << >> =>
                 /\ delivered[t][1][1] = "Ok"
                        <=> (t \in DOMAIN served /\ served[t] = "budget_left")
                 /\ delivered[t][1][1] # "Ok" => delivered[t][1] = CouldNotGetData

\* C1 amended: for a digest added once the sink gets no value while the
\* digest is pending and exactly one value once it is not; the value is
\* Ok(payload) if and only if a response arrived while the digest was still
\* in the pending map, also when num_retries had already reached
\* max_num_retry; otherwise it is CouldNotGetData.
C1_ExactlyOnce ==
    \A d \in CoordDigests :
        AddedOnce(d) =>
            LET t == ChannelOf(d) IN
            /\ Len(delivered[t]) <= 1
            /\ contains_key(digest_to_state, d) <=> delivered[t] = << >>
            /\ delivered[t] # << >> =>
                 /\ delivered[t][1][1] = "Ok" <=> t \in DOMAIN served
                 /\ delivered[t][1][1] = "Ok" => delivered[t][1][2] \in Payloads
                 /\ delivered[t][1][1] # "Ok" => delivered[t][1] = CouldNotGetData

\* a response that came after the last retry was consumed, and before the
\* timeout of that retry was handled, resolved the request with success
C1_Witness ==
    \E d \in CoordDigests :
        /\ AddedOnce(d)
        /\ ChannelOf(d) \in DOMAIN served
        /\ served[ChannelOf(d)] = "budget_spent"
        /\ Len(delivered[ChannelOf(d)]) = 1
        /\ delivered[ChannelOf(d)][1][1] = "Ok"

\* C2: while timer ticks keep occurring and the clock keeps advancing, every
\* digest in the pending map eventually leaves it; whenever a digest leaves
\* the map a value is delivered to the sink its state held; a state that
\* gets no response is failed by the max_num_retry-th timeout it consumes
\* and is never pending after that.
C2_NoHang ==
    /\ \A d \in CoordDigests :
           contains_key(digest_to_state, d) ~> ~contains_key(digest_to_state, d)
    /\ [][ \A d \in CoordDigests :
              (contains_key(digest_to_state, d) /\ ~contains_key(digest_to_state', d))
                  => Len(delivered'[digest_to_state[d].ret_tx]) = 1 ]_vars
    /\ [](\A t \in DOMAIN owner :
              /\ Held(t) => expiries_seen[t] < max_num_retry
              /\ delivered[t] = << CouldNotGetData >>
                     => expiries_seen[t] = max_num_retry)

\* a request that got no response was failed
C2_Witness ==
    \E t \in DOMAIN owner :
        /\ delivered[t] = << CouldNotGetData >>
        /\ ~Held(t)
        /\ t \notin DOMAIN served
        /\ expiries_seen[t] = max_num_retry

\* C3 as stated: every sink handed to add_request, also one for a digest
\* that is already pending, gets exactly one value; no sink is discarded
\* without a value.
C3_AsStated ==
    \A t \in DOMAIN owner :
        /\ t \notin dropped
        /\ Len(delivered[t]) <= 1
        /\ Held(t) \/ Len(delivered[t]) = 1

\* C4: serve_request for a digest that is not in the pending map changes
\* neither the map, a per-digest state, nor the timeout queue, delivers
\* nothing and sends nothing.
C4_StaleResponse ==
    [][ \A d \in CoordDigests, p \in Payloads :
           (ServeRequest(d, p) /\ ~contains_key(digest_to_state, d)) =>
               UNCHANGED << digest_to_state, timeouts, delivered, dropped,
                            num_sends, last_msg, expired, pc, now >> ]_vars

\* a response came for a digest whose request had already been failed,
\* while a timeout of the other digest was queued
C4_Witness ==
    /\ timeouts # << >>
    /\ \E t \in DOMAIN owner :
           /\ delivered[t] = << CouldNotGetData >>
           /\ ~contains_key(digest_to_state, owner[t])
           /\ ignored = Some(<< owner[t], "resolved" >>)

\* C5 as stated: a timeout entry scheduled for a request that serve_request
\* has resolved is consumed by handle_timeouts without a send, without a
\* retry of any per-digest state, without a delivery and without a new
\* timeout entry.
C5_AsStated ==
    [][ (HandleTimeoutsStep /\ Head(expired_for) \in DOMAIN served) =>
            UNCHANGED << digest_to_state, timeouts, delivered,
                         num_sends, last_msg >> ]_vars

\* C15: resolving a request whose receiver is gone is fatal: on the success
\* path (serve_request) and on the failure path (handle_timeouts with the
\* budget spent) the expect() panics, the digest has left the pending map
\* by then, nothing is delivered and no operation runs after the panic.
C15_FatalDelivery ==
    /\ [][ \A d \in CoordDigests, p \in Payloads :
              ( /\ ServeRequest(d, p)
                /\ contains_key(digest_to_state, d)
                /\ digest_to_state[d].ret_tx \in rx_dropped )
              => ( /\ panicked'
                   /\ ~contains_key(digest_to_state', d)
                   /\ delivered' = delivered ) ]_vars
    /\ [][ ( /\ HandleTimeoutsStep
             /\ contains_key(digest_to_state, Head(expired))
             /\ digest_to_state[Head(expired)].num_retries = max_num_retry
             /\ digest_to_state[Head(expired)].ret_tx \in rx_dropped )
           => ( /\ panicked'
                /\ ~contains_key(digest_to_state', Head(expired))
                /\ delivered' = delivered ) ]_vars
    /\ [][ ~panicked ]_vars
    /\ [](panicked => \E t \in rx_dropped : ~Held(t) /\ delivered[t] = << >>)

\* handle_timeouts panicked on the failure of a request whose receiver was gone
C15_Witness ==
    /\ panicked
    /\ \E t \in rx_dropped :
           /\ t \in DOMAIN expiries_seen
           /\ expiries_seen[t] = max_num_retry
           /\ ~contains_key(digest_to_state, owner[t])
           /\ delivered[t] = << >>

\* C16: the initial send of add_request consumes one retry, so a digest
\* added once gets at most max_num_retry sends, each to request_num_peers
\* peers; with no response it gets exactly max_num_retry sends and is failed
\* on its max_num_retry-th timeout expiry, which removes it from the pending
\* map and schedules no timeout.
C16_SendBudget ==
    /\ [](\A d \in CoordDigests :
              AddedOnce(d) =>
                  LET t == ChannelOf(d) IN
                  /\ num_sends[d] >= 1
                  /\ num_sends[d] <= max_num_retry
                  /\ contains_key(digest_to_state, d) =>
                        /\ num_sends[d] = digest_to_state[d].num_retries
                        /\ num_sends[d] = expiries_seen[t] + 1
                  /\ delivered[t] = << CouldNotGetData >> =>
                        /\ num_sends[d] = max_num_retry
                        /\ expiries_seen[t] = max_num_retry)
    /\ [](last_msg # None => Len(last_msg[1][2]) = request_num_peers)
    /\ [][ \A d \in CoordDigests :
              ( /\ contains_key(digest_to_state, d)
                /\ delivered'[digest_to_state[d].ret_tx] = << CouldNotGetData >> )
              => ( /\ ~contains_key(digest_to_state', d)
                   /\ timeouts' = timeouts
                   /\ num_sends' = num_sends
                   /\ digest_to_state[d].num_retries = max_num_retry ) ]_vars

\* a digest added once was failed after max_num_retry sends
C16_Witness ==
    \E d \in CoordDigests :
        /\ AddedOnce(d)
        /\ delivered[ChannelOf(d)] = << CouldNotGetData >>
        /\ num_sends[d] = max_num_retry
        /\ ~contains_key(digest_to_state, d)
        /\ \A i \in 1..Len(timeouts) : timeouts[i][2] # d

\* C17: with one request_timeout_ms and a clock that never goes back, the
\* timeout queue is in non-decreasing expiry order in every state, also
\* after handle_timeouts re-appends retried digests, so after expire() no
\* entry with expiry <= now is left in the queue.
C17_QueueSorted ==
    /\ [](\A i \in 1..(Len(timeouts) - 1) : timeouts[i][1] <= timeouts[i + 1][1])
    /\ [][ HandleTimeoutsBegin =>
               \A i \in 1..Len(timeouts') : timeouts'[i][1] > now ]_vars

\* handle_timeouts re-appended a retried digest behind an entry that
\* expires earlier
C17_Witness ==
    /\ Len(timeouts) = 2
    /\ timeouts[1][1] < timeouts[2][1]
    /\ timeouts[2][1] = now + request_timeout_ms
    /\ contains_key(digest_to_state, timeouts[2][2])
    /\ digest_to_state[timeouts[2][2]].num_retries >= 2
    /\ timeouts[1][2] # timeouts[2][2]

\* C19: between operations every digest in the pending map has at least
\* one entry in the timeout queue.
C19_PendingIsScheduled ==
    pc = "idle" =>
        \A d \in DOMAIN digest_to_state :
            \E i \in 1..Len(timeouts) : timeouts[i][2] = d

\* a digest on its last retry is pending between operations, with the one
\* queue entry that handle_timeouts re-appended for it
C19_Witness ==
    /\ pc = "idle"
    /\ \E d \in DOMAIN digest_to_state :
           /\ digest_to_state[d].num_retries = max_num_retry
           /\ Cardinality({ i \in 1..Len(timeouts) : timeouts[i][2] = d }) = 1

\* C20 as stated: between operations the timeout queue holds at most one
\* entry for each pending digest, also when a digest is added again.
C20_AsStated ==
    pc = "idle" =>
        \A d \in DOMAIN digest_to_state :
            Cardinality({ i \in 1..Len(timeouts) : timeouts[i][2] = d }) <= 1

(***************************************************************************)
(* Specification SpecDT: a DigestTimeouts driven with arbitrary timeouts   *)
(* under a clock that never goes back.                                     *)
(***************************************************************************)
InitDT ==
    /\ IdleCoord /\ IdlePeers /\ IdleDT /\ IdleRE /\ IdleBB

DT_AddDigest ==
    /\ Len(timeouts) < MaxQueue
    /\ \E digest \in Digests, timeout \in 0..MaxTimeout :
           timeouts' = add_digest(timeouts, digest, timeout, now)
    /\ dt_ret' = << >>
    /\ dt_before' = << >>
    /\ UNCHANGED << request_num_peers, digest_to_state, now, pc, expired,
                    next_ret_tx, delivered, dropped, rx_dropped, panicked,
                    num_sends, last_msg,
                    owner, served, ignored, expiries_seen, sched, expired_for,
                    peersVars, reVars, bbVars >>

DT_Expire ==
    /\ LET r == DigestTimeouts_expire(timeouts, now) IN
         /\ timeouts' = r.timeouts
         /\ dt_ret' = r.ret
    /\ dt_before' = timeouts
    /\ UNCHANGED << request_num_peers, digest_to_state, now, pc, expired,
                    next_ret_tx, delivered, dropped, rx_dropped, panicked,
                    num_sends, last_msg,
                    owner, served, ignored, expiries_seen, sched, expired_for,
                    peersVars, reVars, bbVars >>

DT_Tick ==
    /\ now < MaxTime
    /\ now' = now + 1
    /\ dt_ret' = << >>
    /\ dt_before' = << >>
    /\ UNCHANGED << request_num_peers, digest_to_state, timeouts, pc, expired,
                    next_ret_tx, delivered, dropped, rx_dropped, panicked,
                    num_sends, last_msg,
                    owner, served, ignored, expiries_seen, sched, expired_for,
                    peersVars, reVars, bbVars >>

NextDT == DT_AddDigest \/ DT_Expire \/ DT_Tick

SpecDT == InitDT /\ [][NextDT]_vars

\* C9: expire at time now removes and returns, in queue order, exactly the
\* longest prefix of entries with expiry <= now and leaves the rest queued
\* in their order; three entries scheduled with one duration at t, t+1, t+2
\* are all returned by one expire at or after the last expiry, and an
\* expire before the first expiry returns nothing and changes nothing.
C9_ExpirePrefix ==
    [][ DT_Expire =>
        LET q  == timeouts
            q2 == timeouts'
            r  == dt_ret'
        IN /\ Len(r) + Len(q2) = Len(q)
           /\ \A i \in 1..Len(r) : r[i] = q[i][2] /\ q[i][1] <= now
           /\ \A j \in 1..Len(q2) : q2[j] = q[Len(r) + j]
           /\ q2 # << >> => q2[1][1] > now
           /\ (Len(q) = 3 /\ q[2][1] = q[1][1] + 1 /\ q[3][1] = q[1][1] + 2) =>
                 /\ now >= q[3][1] =>
                       (r = << q[1][2], q[2][2], q[3][2] >> /\ q2 = << >>)
                 /\ now < q[1][1] => (r = << >> /\ q2 = q) ]_vars

\* A, B, C scheduled one tick apart with the same timeout were all returned
\* by one expire
C9_Witness ==
    /\ Len(dt_before) = 3
    /\ dt_before[2][1] = dt_before[1][1] + 1
    /\ dt_before[3][1] = dt_before[1][1] + 2
    /\ dt_ret = << 1, 2, 3 >>
    /\ timeouts = << >>

(***************************************************************************)
(* Specification SpecRE: a RoundExpirations<I>                             *)
(***************************************************************************)
InitRE ==
    /\ IdleCoord /\ IdlePeers /\ IdleDT /\ IdleRE /\ IdleBB

RE_AddItem ==
    /\ BagCardinality(expiries) < MaxHeap
    /\ \E item \in Items, expiry_round \in Rounds :
           expiries' = add_item(expiries, item, expiry_round)
    /\ re_round' = -1
    /\ re_ret' = {}
    /\ UNCHANGED << coordVars, peersVars, dtVars, bbVars >>

RE_Expire ==
    /\ \E round \in 0..(MaxRound + 1) :
           LET r == RoundExpirations_expire(expiries, round) IN
             /\ expiries' = r.expiries
             /\ re_ret' = r.ret
             /\ re_round' = round
    /\ UNCHANGED << coordVars, peersVars, dtVars, bbVars >>

NextRE == RE_AddItem \/ RE_Expire

SpecRE == InitRE /\ [][NextRE]_vars

C11_AsDocumented ==
    [][ re_round' # -1 =>
            \A e \in BagToSet(expiries) :
                e[1] = re_round' => (e[2] \in re_ret' /\ ~BagIn(e, expiries')) ]_vars

(***************************************************************************)
(* Specification SpecBB: a BatchBuilder driven with arbitrary calls.       *)
(***************************************************************************)
InitBB ==
    /\ \E max_bytes \in MaxBytesChoices :
           builder = BatchBuilder_new(0, max_bytes)
    /\ bb_ret = None
    /\ bb_taken = << >>
    /\ bb_aborted = FALSE
    /\ IdleCoord /\ IdlePeers /\ IdleDT /\ IdleRE

BB_Append(txn) ==
    /\ ~bb_aborted
    /\ Len(builder.summaries) < MaxTxns
    /\ LET r == append_transaction(builder, txn) IN
         /\ builder' = r.b
         /\ bb_ret' = [ op |-> "append_transaction", arg |-> Some(txn),
                        val |-> r.ret ]
    /\ UNCHANGED << bb_taken, bb_aborted >>
    /\ UNCHANGED << coordVars, peersVars, dtVars, reVars >>

BB_IsEmpty ==
    /\ ~bb_aborted
    /\ bb_ret' = [ op |-> "is_empty", arg |-> None, val |-> is_empty(builder) ]
    /\ UNCHANGED << builder, bb_taken, bb_aborted >>
    /\ UNCHANGED << coordVars, peersVars, dtVars, reVars >>

BB_BatchId ==
    /\ ~bb_aborted
    /\ bb_ret' = [ op |-> "batch_id", arg |-> None, val |-> batch_id(builder) ]
    /\ UNCHANGED << builder, bb_taken, bb_aborted >>
    /\ UNCHANGED << coordVars, peersVars, dtVars, reVars >>

BB_Summaries ==
    /\ ~bb_aborted
    /\ bb_ret' = [ op |-> "summaries", arg |-> None, val |-> summaries(builder) ]
    /\ UNCHANGED << builder, bb_taken, bb_aborted >>
    /\ UNCHANGED << coordVars, peersVars, dtVars, reVars >>

BB_TakeSerializedTxns ==
    /\ ~bb_aborted
    /\ LET r == take_serialized_txns(builder) IN
         /\ builder' = r.b
         /\ bb_ret' = [ op |-> "take_serialized_txns", arg |-> None,
                        val |-> r.ret ]
    /\ bb_taken' = bb_taken \o builder.data
    /\ UNCHANGED bb_aborted
    /\ UNCHANGED << coordVars, peersVars, dtVars, reVars >>

BB_TakeSummaries ==
    /\ ~bb_aborted
    /\ builder.id < MaxBatchId
    /\ LET r == take_summaries(builder) IN
         /\ builder' = r.b
         /\ bb_aborted' = r.failed
         /\ bb_ret' = [ op |-> "take_summaries", arg |-> None, val |-> r.ret ]
         /\ bb_taken' = IF r.failed THEN bb_taken ELSE << >>
    /\ UNCHANGED << coordVars, peersVars, dtVars, reVars >>

NextBB ==
    \/ \E txn \in SignedTransactions : BB_Append(txn)
    \/ BB_IsEmpty
    \/ BB_BatchId
    \/ BB_Summaries
    \/ BB_TakeSerializedTxns
    \/ BB_TakeSummaries

SpecBB == InitBB /\ [][NextBB]_vars

RECURSIVE SumLens(_)
SumLens(seq) ==
    IF seq = << >> THEN 0 ELSE Len(Head(seq)) + SumLens(Tail(seq))

\* the serialized transactions appended since the last take_summaries
Appended == bb_taken \o builder.data

\* a step that is a call of append_transaction; its argument is bb_ret'.arg[1]
AppendStep ==
    /\ bb_ret' # None
    /\ bb_ret'.op = "append_transaction"
    /\ BB_Append(bb_ret'.arg[1])

\* C12: append_transaction accepts the transaction (returns true, pushes its
\* serialized bytes and its (sender, sequence number) summary, adds its length
\* to num_bytes) if and only if num_bytes + serialized length <= max_bytes;
\* otherwise it returns false and leaves id, summaries, data and num_bytes
\* unchanged. Hence num_bytes <= max_bytes in every reachable state; with
\* max_bytes 100 a third transaction of size 40 after two of size 40 is
\* rejected and the byte total stays 80.
C12_Admission ==
    /\ [](builder.num_bytes <= builder.max_bytes)
    /\ [][ AppendStep =>
            LET txn  == bb_ret'.arg[1]
                fits == builder.num_bytes + txn.size <= builder.max_bytes IN
            /\ Len(from_signed_txn(txn)) = txn.size
            /\ bb_ret'.val = fits
            /\ fits =>
                 /\ builder'.data = Append(builder.data, from_signed_txn(txn))
                 /\ builder'.summaries =
                        Append(builder.summaries,
                               [ sender |-> txn.sender,
                                 sequence_number |-> txn.sequence_number ])
                 /\ builder'.num_bytes = builder.num_bytes + txn.size
                 /\ builder'.id = builder.id
                 /\ builder'.max_bytes = builder.max_bytes
            /\ ~fits => builder' = builder
            /\ ( /\ builder.max_bytes = 100
                 /\ builder.num_bytes = 80
                 /\ txn.size = 40 )
                 => (bb_ret'.val = FALSE /\ builder'.num_bytes = 80) ]_vars

\* sizes 40, 40, 40 against max_bytes 100: the third append is rejected
C12_Witness ==
    /\ bb_ret # None
    /\ bb_ret.op = "append_transaction"
    /\ bb_ret.val = FALSE
    /\ bb_ret.arg[1].size = 40
    /\ builder.max_bytes = 100
    /\ builder.num_bytes = 80
    /\ Len(builder.data) = 2
    /\ \A i \in 1..2 : Len(builder.data[i]) = 40

\* C13 as stated: num_bytes always equals the sum of the lengths of the
\* entries currently held in data.
C13_AsStated == builder.num_bytes = SumLens(builder.data)

\* C13: num_bytes equals the sum of the lengths of the serialized
\* transactions appended since the last take_summaries, those still held in
\* data and those already removed by take_serialized_txns alike; these are
\* the transactions whose summaries are held. It equals the sum over data
\* alone as long as take_serialized_txns has removed nothing since the last
\* take_summaries.
C13_ByteCount ==
    /\ builder.num_bytes = SumLens(Appended)
    /\ Len(builder.summaries) = Len(Appended)
    /\ \A i \in 1..Len(Appended) :
           /\ builder.summaries[i].sender = Appended[i][1]
           /\ builder.summaries[i].sequence_number = Appended[i][2]
    /\ bb_taken = << >> => builder.num_bytes = SumLens(builder.data)

\* bytes were drained and more were appended: the count covers both
C13_Witness ==
    /\ bb_taken # << >>
    /\ builder.data # << >>
    /\ builder.num_bytes = SumLens(bb_taken) + SumLens(builder.data)
    /\ builder.num_bytes > SumLens(builder.data)

\* C14: take_summaries called while data is empty increments the batch id by
\* exactly 1, resets num_bytes to 0, returns all summaries in append order
\* and leaves the builder empty; called while data is non-empty it aborts on
\* the assertion without changing id, num_bytes, summaries or data, and no
\* call follows the abort.
C14_TakeSummaries ==
    /\ [][ BB_TakeSummaries =>
            IF builder.data = << >>
            THEN /\ builder'.id = builder.id + 1
                 /\ builder'.num_bytes = 0
                 /\ bb_ret'.val = Some(builder.summaries)
                 /\ builder'.summaries = << >>
                 /\ is_empty(builder')
                 /\ builder'.data = << >>
                 /\ builder'.max_bytes = builder.max_bytes
                 /\ ~bb_aborted'
            ELSE /\ bb_aborted'
                 /\ bb_ret'.val = None
                 /\ builder' = builder ]_vars
    /\ [][ bb_aborted' => (BB_TakeSummaries /\ builder.data # << >>) ]_vars
    /\ [][ ~bb_aborted ]_vars

\* the assertion failed on a builder that still holds serialized data
C14_Witness ==
    /\ bb_aborted
    /\ builder.data # << >>
    /\ builder.summaries # << >>
    /\ builder.num_bytes > 0
    /\ bb_ret.op = "take_summaries"

\* C18: the batch id never decreases and changes only in take_summaries;
\* append_transaction, take_serialized_txns, is_empty, batch_id and summaries
\* leave it unchanged. take_serialized_txns returns all held serialized
\* transactions in append order, empties data and leaves summaries and
\* num_bytes unchanged, so a transaction appended after it is admitted
\* against the byte total accumulated before it; on empty data it returns
\* the empty sequence and changes nothing. The read-only calls change
\* nothing and return the current value.
C18_Frame ==
    /\ [][ builder'.id >= builder.id ]_vars
    /\ [][ builder'.id # builder.id => BB_TakeSummaries ]_vars
    /\ [][ BB_TakeSerializedTxns =>
            /\ bb_ret'.val = builder.data
            /\ builder' = [ builder EXCEPT !.data = << >> ]
            /\ builder.data = << >> => builder' = builder ]_vars
    /\ [][ AppendStep =>
            bb_ret'.val =
                (SumLens(bb_taken) + SumLens(builder.data) + bb_ret'.arg[1].size
                     <= builder.max_bytes) ]_vars
    /\ [][ (BB_IsEmpty \/ BB_BatchId \/ BB_Summaries) => builder' = builder ]_vars
    /\ [][ BB_IsEmpty => bb_ret'.val = (builder.summaries = << >>) ]_vars
    /\ [][ BB_BatchId => bb_ret'.val = builder.id ]_vars
    /\ [][ BB_Summaries => bb_ret'.val = builder.summaries ]_vars

\* after a drain, a transaction that would fit an empty builder is rejected
\* because of the bytes accumulated before the drain
C18_Witness ==
    /\ bb_ret # None
    /\ bb_ret.op = "append_transaction"
    /\ bb_ret.val = FALSE
    /\ bb_ret.arg[1].size <= builder.max_bytes
    /\ builder.data = << >>
    /\ bb_taken # << >>
    /\ builder.summaries # << >>

====
